---- MODULE Spec2Model ----
(***************************************************************************)
(* Model of Replicate/recraft_cli.py: one run of the command-line wrapper. *)
(* The script is sequential; every call main() makes is one action, and    *)
(* the __main__ block's try/except is the last one.  Strings are sequences *)
(* of one-character strings so that the prefix test, path resolution and   *)
(* the message formatting are computed, not assumed.                       *)
(***************************************************************************)
EXTENDS Integers, Sequences, FiniteSets, TLC

VARIABLES
    argv,          \* the command line: which flags are given, and their values
    environ,       \* the value of os.environ.get(TOKEN_ENV_VAR)
    fs,            \* the filesystem: [dirs, files]
    pc,            \* the statement main() / __main__ is at
    args,          \* the namespace parse_args returned
    client,        \* replicate.Client(api_token=token)
    image_source,  \* what resolve_image_source returned
    opens,         \* how many times this run opened the input stream
    closes,        \* how many times this run closed it
    runs,          \* the inputs of every client.run call, in order
    output,        \* what client.run returned
    inspected,     \* positions pick_file_like tested for a read, in order
    reads,         \* positions whose read() was called, in order
    data,          \* bytes read from the chosen element
    remote_url,    \* its url attribute, or None
    output_path,   \* Path(args.output).expanduser().resolve()
    exc,           \* the exception travelling up, if any
    stdout,        \* what was printed to standard output, in order
    stderr,        \* what was printed to standard error, in order
    exitCode       \* the process's exit code once it has ended

vars == <<argv, environ, fs, pc, args, client, image_source, opens, closes,
          runs, output, inspected, reads, data, remote_url, output_path, exc,
          stdout, stderr, exitCode>>

(***************************************************************************)
(* Bounds of the model.                                                    *)
(***************************************************************************)
\* longest sequence the remote service returns
MaxLen == 2
\* longest sequence nested inside a returned sequence
MaxInnerLen == 1

(***************************************************************************)
(* Strings.                                                                *)
(***************************************************************************)
Slash == "/"
Tilde == "~"
None == [kind |-> "None"]
Str(s) == [kind |-> "str", value |-> s]

StartsWith(s, p) == Len(s) >= Len(p) /\ SubSeq(s, 1, Len(p)) = p

MODEL_NAME == <<"r", "e", "c", "r", "a", "f", "t", "-", "a", "i", "/",
                "r", "e", "c", "r", "a", "f", "t", "-", "c", "r", "i", "s", "p",
                "-", "u", "p", "s", "c", "a", "l", "e">>
DEFAULT_MODE == <<"u", "p", "s", "c", "a", "l", "e", "1", "6", "m", "p">>
TOKEN_ENV_VAR == "REPLICATE_API_TOKEN"

HttpPrefix == <<"h", "t", "t", "p", ":", "/", "/">>
HttpsPrefix == <<"h", "t", "t", "p", "s", ":", "/", "/">>
ModePrefix == <<"m", "o", "d", "e", "=">>

(***************************************************************************)
(* Paths: pathlib's expanduser, resolve, parent, and the ancestors mkdir   *)
(* (parents=True) walks.  Home and Cwd are the process's home and working  *)
(* directory.                                                              *)
(***************************************************************************)
Home == <<"/", "h">>
Cwd == <<"/", "w">>
Root == <<"/">>

expanduser(p) ==
    IF Len(p) >= 1 /\ p[1] = Tilde /\ (Len(p) = 1 \/ p[2] = Slash)
    THEN Home \o Tail(p)
    ELSE p

\* the argument strings of the model hold no ".", ".." or symbolic link
resolve(p) ==
    IF Len(p) >= 1 /\ p[1] = Slash THEN p ELSE Cwd \o <<Slash>> \o p

ResolvedPath(s) == resolve(expanduser(s))

LastSlash(p) ==
    LET S == {i \in 1..Len(p) : p[i] = Slash}
    IN  CHOOSE i \in S : \A j \in S : j <= i

parent(p) == IF LastSlash(p) = 1 THEN Root ELSE SubSeq(p, 1, LastSlash(p) - 1)

\* p and every directory above it
Ancestors(p) ==
    {Root} \cup
    {SubSeq(p, 1, i) : i \in {j \in 2..Len(p) : j = Len(p) \/ p[j + 1] = Slash}}

exists(f, p) == p \in f.dirs \/ p \in DOMAIN f.files

(***************************************************************************)
(* The filesystem the run starts with, and the command lines tried.        *)
(***************************************************************************)
InBytes == <<7>>
OldBytes == <<9, 9, 9>>

InitDirs == {Root, Home, Cwd}
InitFiles ==
    (<<"/", "i">> :> InBytes) @@ (<<"/", "w", "/", "i">> :> InBytes)
        @@ (<<"/", "o">> :> OldBytes)
InitFs == [dirs |-> InitDirs, files |-> InitFiles]

Absent == [present |-> FALSE, value |-> <<>>]
Given(s) == [present |-> TRUE, value |-> s]

ImageArgs ==
    { Absent,
      Given(HttpPrefix \o <<"x">>),        \* URL
      Given(HttpsPrefix \o <<"x">>),       \* URL
      Given(<<"/", "i">>),                 \* existing file, absolute
      Given(<<"i">>),                      \* existing file, relative
      Given(<<"/", "n">>),                 \* no such file
      Given(<<"h", "t", "t", "p">>),       \* no such file; not a URL
      Given(<<"/", "w">>) }                \* exists, but is a directory

OutputArgs ==
    { Absent,
      Given(<<"/", "o">>),                 \* existing file: truncated
      Given(<<"o">>),                      \* relative: /w/o
      Given(<<"~", "/", "o">>),            \* under the home directory
      Given(<<"/", "d", "/", "e", "/", "o">>),  \* two missing parents
      Given(<<"/", "w">>),                 \* a directory: open fails
      Given(<<"/", "i", "/", "o">>) }      \* parent is a file: mkdir fails

ModeArgs == { Absent, Given(<<"m">>) }

Argvs == [image : ImageArgs, output : OutputArgs, mode : ModeArgs, help : BOOLEAN]

\* os.environ.get: unset, set to the empty string, or set
Environs == { None, Str(<<>>), Str(<<"t">>) }

(***************************************************************************)
(* Exceptions and printed lines.                                           *)
(***************************************************************************)
Exception(type, msg) == [kind |-> "Exception", type |-> type, msg |-> msg]
SystemExit(code) == [kind |-> "SystemExit", code |-> code]

JsonLine(obj) == [kind |-> "json", obj |-> obj]
TextLine(t) == [kind |-> "text", text |-> t]

NoArgs == [image |-> <<>>, output |-> <<>>, mode |-> <<>>, parsed |-> FALSE]

Init ==
    /\ argv \in Argvs
    /\ environ \in Environs
    /\ fs = InitFs
    /\ pc = "parse_args"
    /\ args = NoArgs
    /\ client = None
    /\ image_source = None
    /\ opens = 0
    /\ closes = 0
    /\ runs = <<>>
    /\ output = None
    /\ inspected = <<>>
    /\ reads = <<>>
    /\ data = <<>>
    /\ remote_url = None
    /\ output_path = <<>>
    /\ exc = None
    /\ stdout = <<>>
    /\ stderr = <<>>
    /\ exitCode = None

(***************************************************************************)
(* parse_args (lines 15-20).  argparse ends the process itself, through    *)
(* SystemExit: code 0 after printing the help text to standard output,     *)
(* code 2 after printing the usage text to standard error when a required  *)
(* flag is missing.                                                        *)
(***************************************************************************)
parse_args ==
    /\ pc = "parse_args"
    /\ IF argv.help
       THEN /\ stdout' = Append(stdout, TextLine("help"))
            /\ exc' = SystemExit(0)
            /\ pc' = "raised"
            /\ UNCHANGED <<args, stderr>>
       ELSE IF ~argv.image.present \/ ~argv.output.present
       THEN /\ stderr' = Append(stderr, TextLine("usage"))
            /\ exc' = SystemExit(2)
            /\ pc' = "raised"
            /\ UNCHANGED <<args, stdout>>
       ELSE /\ args' = [image |-> argv.image.value,
                        output |-> argv.output.value,
                        mode |-> IF argv.mode.present THEN argv.mode.value
                                 ELSE DEFAULT_MODE,
                        parsed |-> TRUE]
            /\ pc' = "ensure_token"
            /\ UNCHANGED <<exc, stdout, stderr>>
    /\ UNCHANGED <<argv, environ, fs, client, image_source, opens, closes, runs,
                   output, inspected, reads, data, remote_url, output_path,
                   exitCode>>

(***************************************************************************)
(* ensure_token (lines 23-27) and the client's construction (line 73).     *)
(* "not token" holds for an unset variable and for an empty one.           *)
(***************************************************************************)
\* variant: only an unset variable counts ("token is None")
TokenMissing_unset_only(token) == token.kind = "None"

TokenMissing(token) == token.kind = "None" \/ token.value = <<>>

ensure_token ==
    /\ pc = "ensure_token"
    /\ IF TokenMissing(environ)
       THEN /\ exc' = Exception("RuntimeError", <<"token not set", TOKEN_ENV_VAR>>)
            /\ pc' = "raised"
            /\ UNCHANGED client
       ELSE /\ client' = [kind |-> "Client", api_token |-> environ.value]
            /\ pc' = "resolve_image_source"
            /\ UNCHANGED exc
    /\ UNCHANGED <<argv, environ, fs, args, image_source, opens, closes, runs,
                   output, inspected, reads, data, remote_url, output_path,
                   stdout, stderr, exitCode>>

(***************************************************************************)
(* resolve_image_source (lines 30-38).                                     *)
(***************************************************************************)
IsUrl(image_arg) == StartsWith(image_arg, HttpPrefix) \/ StartsWith(image_arg, HttpsPrefix)

Url(s) == [kind |-> "url", value |-> s]
Stream(p) == [kind |-> "stream", path |-> p]

\* variant: the existence test of lines 35-36 is left out
resolve_image_source_unchecked ==
    /\ pc = "resolve_image_source"
    /\ IF IsUrl(args.image)
       THEN /\ image_source' = Url(args.image)
            /\ UNCHANGED opens
       ELSE /\ image_source' = Stream(ResolvedPath(args.image))
            /\ opens' = opens + 1
    /\ pc' = "client_run"
    /\ UNCHANGED <<argv, environ, fs, args, client, closes, runs, output,
                   inspected, reads, data, remote_url, output_path, exc, stdout,
                   stderr, exitCode>>

resolve_image_source ==
    /\ pc = "resolve_image_source"
    /\ LET path == ResolvedPath(args.image)
       IN  IF IsUrl(args.image)
           THEN /\ image_source' = Url(args.image)
                /\ pc' = "client_run"
                /\ UNCHANGED <<opens, exc>>
           ELSE IF ~exists(fs, path)
           THEN /\ exc' = Exception("FileNotFoundError", <<"Source image not found", path>>)
                /\ pc' = "raised"
                /\ UNCHANGED <<image_source, opens>>
           ELSE IF path \in fs.dirs
           THEN \* path.open("rb") on a directory raises
                /\ exc' = Exception("IsADirectoryError", <<"Is a directory", path>>)
                /\ pc' = "raised"
                /\ UNCHANGED <<image_source, opens>>
           ELSE /\ image_source' = Stream(path)
                /\ opens' = opens + 1
                /\ pc' = "client_run"
                /\ UNCHANGED exc
    /\ UNCHANGED <<argv, environ, fs, args, client, closes, runs, output,
                   inspected, reads, data, remote_url, output_path, stdout,
                   stderr, exitCode>>

(***************************************************************************)
(* What client.run can return: the library hands back a file output, a     *)
(* plain value, a mapping, an iterator, or a list or tuple of those, which *)
(* may nest.  A file output has a read() and may have a url attribute.     *)
(***************************************************************************)
File1 == [kind |-> "file", data |-> <<1, 2>>, url |-> Str(<<"u">>)]
File2 == [kind |-> "file", data |-> <<3>>, url |-> None]
Marker == [kind |-> "marker"]
Mapping == [kind |-> "dict"]
\* an object whose read attribute is not callable
ReadAttr == [kind |-> "readattr"]
Iterator == [kind |-> "iterator", items |-> <<File1>>]

List(items) == [kind |-> "list", items |-> items]
Tuple(items) == [kind |-> "tuple", items |-> items]

SeqsUpTo(S, n) == UNION {[1..k -> S] : k \in 0..n}

Leaves == {File1, File2, Marker}
InnerValues == {Tuple(s) : s \in SeqsUpTo({File1, Marker}, MaxInnerLen)}
OuterItems == Leaves \cup InnerValues
RemoteValues ==
    Leaves \cup {Mapping, ReadAttr, Iterator}
        \cup {List(s) : s \in SeqsUpTo(OuterItems, MaxLen)}
        \cup {Tuple(s) : s \in SeqsUpTo(Leaves, MaxInnerLen)}

(***************************************************************************)
(* client.run inside try/finally (lines 76-84): the call is made once, it  *)
(* returns or raises, and the finally block closes a source that has a     *)
(* close method.                                                           *)
(***************************************************************************)
has_close(source) == source.kind = "stream"

\* variant: the close follows the call instead of standing in a finally block
client_run_close_after ==
    /\ pc = "client_run"
    /\ runs' = Append(runs, [model |-> MODEL_NAME,
                             input |-> [image |-> image_source, upscale |-> args.mode]])
    /\ \/ \E value \in RemoteValues :
            /\ output' = value
            /\ pc' = "read_remote_output"
            /\ closes' = IF has_close(image_source) THEN closes + 1 ELSE closes
            /\ UNCHANGED exc
       \/ /\ exc' = Exception("ReplicateError", <<"remote call failed">>)
          /\ pc' = "raised"
          /\ UNCHANGED <<output, closes>>
    /\ UNCHANGED <<argv, environ, fs, args, client, image_source, opens,
                   inspected, reads, data, remote_url, output_path, stdout,
                   stderr, exitCode>>

\* variant: a call that raised is made a second time
client_run_retry ==
    /\ pc = "client_run"
    /\ LET call == [model |-> MODEL_NAME,
                    input |-> [image |-> image_source, upscale |-> args.mode]]
       IN  \/ \E value \in RemoteValues :
                /\ runs' = Append(runs, call)
                /\ output' = value
                /\ pc' = "read_remote_output"
                /\ UNCHANGED exc
           \/ /\ runs' = runs \o <<call, call>>
              /\ exc' = Exception("ReplicateError", <<"remote call failed">>)
              /\ pc' = "raised"
              /\ UNCHANGED output
    /\ closes' = IF has_close(image_source) THEN closes + 1 ELSE closes
    /\ UNCHANGED <<argv, environ, fs, args, client, image_source, opens,
                   inspected, reads, data, remote_url, output_path, stdout,
                   stderr, exitCode>>

client_run ==
    /\ pc = "client_run"
    /\ runs' = Append(runs, [model |-> MODEL_NAME,
                             input |-> [image |-> image_source, upscale |-> args.mode]])
    /\ \/ \E value \in RemoteValues :
            /\ output' = value
            /\ pc' = "read_remote_output"
            /\ UNCHANGED exc
       \/ /\ exc' = Exception("ReplicateError", <<"remote call failed">>)
          /\ pc' = "raised"
          /\ UNCHANGED output
    /\ closes' = IF has_close(image_source) THEN closes + 1 ELSE closes
    /\ UNCHANGED <<argv, environ, fs, args, client, image_source, opens,
                   inspected, reads, data, remote_url, output_path, stdout,
                   stderr, exitCode>>

(***************************************************************************)
(* pick_file_like (lines 41-51), with the positions it tests.  A position  *)
(* is the path of indices from the result to a value: <<>> is the result   *)
(* itself, <<2, 1>> the first item of its second item.  The values the     *)
(* client returns with a read method are plain objects, which are truthy.  *)
(***************************************************************************)
has_callable_read(value) == value.kind = "file"
\* variant: any iterable is searched
is_iterable(value) == value.kind \in {"list", "tuple", "iterator"}
is_list_or_tuple(value) == value.kind \in {"list", "tuple"}

NotPicked(seen) == [found |-> FALSE, file |-> None, at |-> <<>>, seen |-> seen]

RECURSIVE pick_at(_, _)
RECURSIVE for_item(_, _, _, _)
RECURSIVE for_item_last(_, _, _, _)

\* variant: the loop does not stop at the first match and keeps the last
for_item_last(items, pos, i, seen) ==
    IF i > Len(items)
    THEN NotPicked(seen)
    ELSE LET file_like == pick_at(items[i], pos \o <<i>>)
             rest == for_item_last(items, pos, i + 1, seen \o file_like.seen)
         IN  IF rest.found THEN rest
             ELSE IF file_like.found
             THEN [file_like EXCEPT !.seen = rest.seen]
             ELSE rest

\* the loop of lines 46-49 from item i on; seen is what was tested so far
for_item(items, pos, i, seen) ==
    IF i > Len(items)
    THEN NotPicked(seen)
    ELSE LET file_like == pick_at(items[i], pos \o <<i>>)
         IN  IF file_like.found
             THEN [file_like EXCEPT !.seen = seen \o file_like.seen]
             ELSE for_item(items, pos, i + 1, seen \o file_like.seen)

pick_at(value, pos) ==
    IF has_callable_read(value)
    THEN [found |-> TRUE, file |-> value, at |-> pos, seen |-> <<pos>>]
    ELSE IF is_list_or_tuple(value)
    THEN for_item(value.items, pos, 1, <<pos>>)
    ELSE NotPicked(<<pos>>)

pick_file_like(value) == pick_at(value, <<>>)

(***************************************************************************)
(* read_remote_output (lines 54-61).  read() downloads the file and can    *)
(* fail; getattr(file_like, "url", None) is the url or None.               *)
(***************************************************************************)
read_remote_output ==
    /\ pc = "read_remote_output"
    /\ LET file_like == pick_file_like(output)
       IN  /\ inspected' = file_like.seen
           /\ IF ~file_like.found
              THEN /\ exc' = Exception("RuntimeError", <<"no file-like object">>)
                   /\ pc' = "raised"
                   /\ UNCHANGED <<reads, data, remote_url>>
              ELSE /\ reads' = Append(reads, file_like.at)
                   /\ \/ /\ data' = file_like.file.data
                         /\ remote_url' = file_like.file.url
                         /\ pc' = "save_bytes"
                         /\ UNCHANGED exc
                      \/ /\ exc' = Exception("ReadError", <<"read failed">>)
                         /\ pc' = "raised"
                         /\ UNCHANGED <<data, remote_url>>
    /\ UNCHANGED <<argv, environ, fs, args, client, image_source, opens, closes,
                   runs, output, output_path, stdout, stderr, exitCode>>

(***************************************************************************)
(* save_bytes (lines 64-67), called with the resolved output path (lines   *)
(* 87-88).  mkdir(parents=True, exist_ok=True) creates the missing         *)
(* directories above the path and fails when one of them is a file;        *)
(* open(path, "wb") truncates or creates the file and fails on a           *)
(* directory; the write stores the bytes.  Each step can also be refused   *)
(* by the system (permissions, a full disk): fault says which, if any.     *)
(***************************************************************************)
Faults == {"none", "mkdir", "open", "write"}

mkdir_parents(f, dir) == [f EXCEPT !.dirs = f.dirs \cup Ancestors(dir)]

\* variant: the file is opened without truncation ("r+b")
FileWrite_no_truncate(f, path, bytes) ==
    LET old == IF path \in DOMAIN f.files THEN f.files[path] ELSE <<>>
        kept == IF Len(old) > Len(bytes)
                THEN SubSeq(old, Len(bytes) + 1, Len(old)) ELSE <<>>
    IN  [f EXCEPT !.files = (path :> (bytes \o kept)) @@ f.files]

FileWrite(f, path, bytes) ==
    [f EXCEPT !.files = (path :> bytes) @@ f.files]

ProperPrefixes(bytes) == {SubSeq(bytes, 1, k) : k \in 0..(Len(bytes) - 1)}

save_bytes ==
    /\ pc = "save_bytes"
    /\ LET path == ResolvedPath(args.output)
           made == mkdir_parents(fs, parent(path))
       IN  /\ output_path' = path
           /\ \E fault \in Faults :
                IF fault = "mkdir" \/ Ancestors(parent(path)) \cap DOMAIN fs.files # {}
                THEN /\ exc' = Exception("OSError", <<"mkdir failed", parent(path)>>)
                     /\ pc' = "raised"
                     /\ UNCHANGED fs
                ELSE IF fault = "open" \/ path \in made.dirs
                THEN /\ exc' = Exception("OSError", <<"open failed", path>>)
                     /\ pc' = "raised"
                     /\ fs' = made
                ELSE IF fault = "write"
                THEN /\ exc' = Exception("OSError", <<"write failed", path>>)
                     /\ pc' = "raised"
                     /\ \E part \in ProperPrefixes(data) :
                            fs' = FileWrite(made, path, part)
                ELSE /\ fs' = FileWrite(made, path, data)
                     /\ pc' = "report"
                     /\ UNCHANGED exc
    /\ UNCHANGED <<argv, environ, args, client, image_source, opens, closes,
                   runs, output, inspected, reads, data, remote_url, stdout,
                   stderr, exitCode>>

(***************************************************************************)
(* The result object and its printing (lines 90-98); main returns 0, which *)
(* line 103 raises as SystemExit(0).                                       *)
(***************************************************************************)
Result(path, url, mode) ==
    [status |-> "ok", output_path |-> path, remote_url |-> url,
     message |-> ModePrefix \o mode]

report ==
    /\ pc = "report"
    /\ stdout' = Append(stdout, JsonLine(Result(output_path, remote_url, args.mode)))
    /\ exc' = SystemExit(0)
    /\ pc' = "raised"
    /\ UNCHANGED <<argv, environ, fs, args, client, image_source, opens, closes,
                   runs, output, inspected, reads, data, remote_url, output_path,
                   stderr, exitCode>>

(***************************************************************************)
(* The __main__ block (lines 101-110): "except Exception" catches what     *)
(* main raised, prints the error object and exits with 1; a SystemExit is  *)
(* no Exception and ends the process with its own code.                    *)
(***************************************************************************)
Error(e) == [status |-> "error", error |-> e.msg]

is_Exception(e) == e.kind = "Exception"

\* variant: the error object goes to standard output
dunder_main_to_stdout ==
    /\ pc = "raised"
    /\ IF is_Exception(exc)
       THEN /\ stdout' = Append(stdout, JsonLine(Error(exc)))
            /\ exitCode' = 1
       ELSE /\ exitCode' = exc.code
            /\ UNCHANGED stdout
    /\ pc' = "done"
    /\ UNCHANGED <<argv, environ, fs, args, client, image_source, opens, closes,
                   runs, output, inspected, reads, data, remote_url, output_path,
                   exc, stderr>>

dunder_main ==
    /\ pc = "raised"
    /\ IF is_Exception(exc)
       THEN /\ stderr' = Append(stderr, JsonLine(Error(exc)))
            /\ exitCode' = 1
       ELSE /\ exitCode' = exc.code
            /\ UNCHANGED stderr
    /\ pc' = "done"
    /\ UNCHANGED <<argv, environ, fs, args, client, image_source, opens, closes,
                   runs, output, inspected, reads, data, remote_url, output_path,
                   exc, stdout>>

Next ==
    \/ parse_args
    \/ ensure_token
    \/ resolve_image_source
    \/ client_run
    \/ read_remote_output
    \/ save_bytes
    \/ report
    \/ dunder_main


Spec == Init /\ [][Next]_vars

(***************************************************************************)
(* Vocabulary of the properties.                                           *)
(***************************************************************************)
Done == pc = "done"
Raised(type) == exc.kind = "Exception" /\ exc.type = type

JsonLines(lines) == {i \in 1..Len(lines) : lines[i].kind = "json"}
JsonCount == Cardinality(JsonLines(stdout)) + Cardinality(JsonLines(stderr))

\* the error object, alone, on standard error; exit code 1
ErrorReported ==
    /\ exitCode = 1
    /\ Len(stderr) = 1
    /\ stderr[1].kind = "json"
    /\ stderr[1].obj.status = "error"
    /\ stderr[1].obj.error = exc.msg

\* the token variable is unset or empty
TokenAbsent == environ = None \/ environ = Str(<<>>)

\* the statements main() has gone past
TokenChecked == pc \notin {"parse_args", "ensure_token"} /\ args.parsed
Resolved == TokenChecked /\ pc # "resolve_image_source" /\ client.kind = "Client"
Unwrapped == Len(inspected) > 0

\* the value at a position of a result
RECURSIVE ValueAt(_, _)
ValueAt(value, pos) ==
    IF pos = <<>> THEN value ELSE ValueAt(value.items[Head(pos)], Tail(pos))

\* every position of a result, a list or tuple before its items, items in order
RECURSIVE Preorder(_, _)
RECURSIVE PreorderItems(_, _, _)
PreorderItems(items, pos, i) ==
    IF i > Len(items) THEN <<>>
    ELSE Preorder(items[i], pos \o <<i>>) \o PreorderItems(items, pos, i + 1)
Preorder(value, pos) ==
    IF value.kind \in {"list", "tuple"}
    THEN <<pos>> \o PreorderItems(value.items, pos, 1)
    ELSE <<pos>>

Readable(value) == value.kind = "file"
ReadableAt(value, order) == {k \in 1..Len(order) : Readable(ValueAt(value, order[k]))}
Least(S) == CHOOSE k \in S : \A j \in S : k <= j

\* the top-level items of a sequence that can be read
ReadableItems(value) == {i \in 1..Len(value.items) : Readable(value.items[i])}

(***************************************************************************)
(* C1: when the process has ended, exactly one JSON object has been        *)
(* printed, standard output and standard error taken together, whatever    *)
(* flags were given.                                                       *)
(***************************************************************************)
C1_ExactlyOneJsonObject == Done => JsonCount = 1

(***************************************************************************)
(* C2: in a run that gets to the token check with the token variable unset *)
(* or empty, the process ends with exit code 1 and the error object on     *)
(* standard error, and there was no remote call, no input stream was       *)
(* opened and the filesystem was not written.                              *)
(***************************************************************************)
C2_MissingTokenIsFatal ==
    (TokenChecked /\ TokenAbsent) =>
        /\ Raised("RuntimeError")
        /\ runs = <<>>
        /\ opens = 0
        /\ fs = InitFs
        /\ stdout = <<>>
        /\ Done => ErrorReported

C2_Witness ==
    /\ Done
    /\ args.parsed
    /\ environ = Str(<<>>)
    /\ exitCode = 1
    /\ Len(stderr) = 1

(***************************************************************************)
(* C3: an input stream this run opened is closed exactly once on every     *)
(* path out of the remote call: it is open only between its opening and    *)
(* the call, and it is never closed twice.                                 *)
(***************************************************************************)
C3_StreamClosedExactlyOnce ==
    /\ opens <= 1
    /\ closes <= opens
    /\ pc \notin {"parse_args", "ensure_token", "resolve_image_source", "client_run"}
          => closes = opens
    /\ (image_source.kind = "stream") = (opens = 1)

C3_Witness ==
    /\ Done
    /\ opens = 1
    /\ closes = 1
    /\ Raised("ReplicateError")

(***************************************************************************)
(* C4: when resolve_image_source is given an argument that is no http://   *)
(* or https:// URL and whose resolved path does not exist, it raises the   *)
(* not-found error, no stream is opened, the remote call is never made,    *)
(* and the process ends with exit code 1 and the error object on standard  *)
(* error.                                                                  *)
(***************************************************************************)
C4_MissingInputFile ==
    (Resolved /\ ~IsUrl(args.image) /\ ~exists(InitFs, ResolvedPath(args.image))) =>
        /\ Raised("FileNotFoundError")
        /\ exc.msg = <<"Source image not found", ResolvedPath(args.image)>>
        /\ image_source = None
        /\ opens = 0
        /\ runs = <<>>
        /\ Done => ErrorReported

C4_Witness ==
    /\ Done
    /\ args.image = <<"h", "t", "t", "p">>
    /\ Raised("FileNotFoundError")
    /\ exitCode = 1

(***************************************************************************)
(* C5 as stated: when the result is a sequence that cannot itself be read, *)
(* the element chosen is the first of its elements that has a callable     *)
(* read.                                                                   *)
(***************************************************************************)
C5_FirstReadableElementOfSequence ==
    (Unwrapped /\ is_list_or_tuple(output) /\ reads # <<>>) =>
        /\ ReadableItems(output) # {}
        /\ reads = << <<Least(ReadableItems(output))>> >>

(***************************************************************************)
(* C5 amended: the search is depth first.  The result is tested first; a   *)
(* list or tuple is searched item by item, a nested list or tuple being    *)
(* searched in full before the item after it.  The chosen value is the     *)
(* first one in that order with a callable read; its bytes and its url (or *)
(* None) are returned; nothing after it is tested or read.                 *)
(***************************************************************************)
C5_FirstMatchDepthFirst ==
    Unwrapped =>
        LET order == Preorder(output, <<>>)
            hits == ReadableAt(output, order)
        IN  IF hits = {}
            THEN reads = <<>> /\ inspected = order
            ELSE LET chosen == order[Least(hits)]
                 IN  /\ reads = <<chosen>>
                     /\ inspected = SubSeq(order, 1, Least(hits))
                     /\ pc \in {"save_bytes", "report"} =>
                            /\ data = ValueAt(output, chosen).data
                            /\ remote_url = ValueAt(output, chosen).url

C5_Witness ==
    /\ pc = "save_bytes"
    /\ output = List(<<Tuple(<<File1>>), File2>>)
    /\ reads = << <<1, 1>> >>
    /\ data = File1.data

(***************************************************************************)
(* C6 as stated: unwrapping fails when the result is an empty sequence, a  *)
(* sequence none of whose elements can be read, or neither readable nor a  *)
(* sequence.                                                               *)
(***************************************************************************)
C6_FailsWithoutReadableElement ==
    (Unwrapped /\ ~Readable(output)
        /\ (is_list_or_tuple(output) => ReadableItems(output) = {})) =>
            Raised("RuntimeError")

(***************************************************************************)
(* C6 amended: unwrapping fails when the result is an empty sequence, a    *)
(* sequence with nothing readable at any depth of nesting, or neither      *)
(* readable nor a sequence; then nothing is written at the output path and *)
(* the process ends with exit code 1 and the error object on standard      *)
(* error.                                                                  *)
(***************************************************************************)
C6_FailsWithoutReadableAtAnyDepth ==
    (Unwrapped /\ ReadableAt(output, Preorder(output, <<>>)) = {}) =>
        /\ Raised("RuntimeError")
        /\ exc.msg = <<"no file-like object">>
        /\ reads = <<>>
        /\ fs = InitFs
        /\ stdout = <<>>
        /\ Done => ErrorReported

C6_Witness ==
    /\ Done
    /\ output = List(<<Marker, Tuple(<<Marker>>)>>)
    /\ exitCode = 1
    /\ fs = InitFs

\* no stage of the run raised
AllStagesSucceeded ==
    /\ Done
    /\ args.parsed
    /\ ~TokenAbsent
    /\ image_source # None
    /\ Len(runs) = 1
    /\ output # None
    /\ reads # <<>>
    /\ output_path # <<>>
    /\ exc.kind # "Exception"

ModeGiven == IF argv.mode.present THEN argv.mode.value ELSE DEFAULT_MODE

(***************************************************************************)
(* C7: a run in which every stage succeeded (token present, source         *)
(* resolved, a readable element returned and read, directories made, file  *)
(* opened and written) has created the missing directories above the       *)
(* resolved output path, left there exactly the bytes read from the chosen *)
(* element, whatever the file held before, and nothing else on the disk    *)
(* has changed; it has printed the one ok object, with the absolute path,  *)
(* the element's url or None and "mode=" followed by the --mode value or   *)
(* the default, on standard output, and it ends with exit code 0.          *)
(***************************************************************************)
C7_SuccessfulRun ==
    AllStagesSucceeded =>
        LET path == ResolvedPath(argv.output.value)
            chosen == ValueAt(output, reads[1])
        IN  /\ output_path = path
            /\ path[1] = Slash
            /\ fs.dirs = InitDirs \cup Ancestors(parent(path))
            /\ DOMAIN fs.files = DOMAIN InitFiles \cup {path}
            /\ fs.files[path] = chosen.data
            /\ \A q \in DOMAIN InitFiles : q # path => fs.files[q] = InitFiles[q]
            /\ stdout = <<JsonLine([status |-> "ok",
                                    output_path |-> path,
                                    remote_url |-> chosen.url,
                                    message |-> ModePrefix \o ModeGiven])>>
            /\ stderr = <<>>
            /\ exitCode = 0

\* the output file existed and was longer than the new bytes
C7_Witness ==
    /\ AllStagesSucceeded
    /\ exitCode = 0
    /\ output_path = <<"/", "o">>
    /\ Len(fs.files[output_path]) < Len(OldBytes)
    /\ ~argv.mode.present

(***************************************************************************)
(* C8: a failure raised at any stage (token, input file, remote call,      *)
(* unwrapping, persisting) is caught at the top level: the run ends with   *)
(* exit code 1, the one error object carrying the failure's message on     *)
(* standard error and nothing on standard output; and no stage ran twice.  *)
(***************************************************************************)
C8_FailureCaughtOnce ==
    (Done /\ exc.kind = "Exception") =>
        /\ ErrorReported
        /\ stdout = <<>>
        /\ JsonCount = 1
        /\ Len(runs) <= 1
        /\ Len(reads) <= 1
        /\ opens <= 1

\* an I/O error while persisting
C8_Witness ==
    /\ Done
    /\ Raised("OSError")
    /\ exitCode = 1
    /\ output_path # <<>>

(***************************************************************************)
(* C9: client.run is called at most once in a run; it is not called when   *)
(* the token check or the source resolution failed; a call that failed is  *)
(* not made again.                                                         *)
(***************************************************************************)
C9_RemoteCallAtMostOnce ==
    /\ Len(runs) <= 1
    /\ client = None => runs = <<>>
    /\ image_source = None => runs = <<>>
    /\ Raised("RuntimeError") /\ ~Unwrapped => runs = <<>>
    /\ Raised("FileNotFoundError") \/ Raised("IsADirectoryError") => runs = <<>>
    /\ Raised("ReplicateError") => Len(runs) = 1

C9_Witness ==
    /\ Done
    /\ Raised("ReplicateError")
    /\ Len(runs) = 1

(***************************************************************************)
(* C10: no run ends with the error status after it has changed the         *)
(* filesystem at the output location (made a directory, or created or      *)
(* rewritten the output file).                                             *)
(***************************************************************************)
C10_NoPartialSuccess == (Done /\ exitCode = 1) => fs = InitFs
====
